---- MODULE Spec2Model ----
(***************************************************************************)
(* kindr::EulerAnglesZyx (include/kindr/rotations/EulerAnglesZyx.hpp):     *)
(* the vector of Z-Y'-X'' Euler angles, its accessors and mutators,        *)
(* getUnique / setUnique and inverted / invert.                            *)
(*                                                                         *)
(* Angles are exact multiples of one grid step, pi/M_PI: the Scalar        *)
(* a*pi/M_PI is the integer a, pi is the integer M_PI and pi/2 is HalfPi.  *)
(* The tolerance tol of getUnique is one grid step, so that, as in the     *)
(* code, 0 < tol < pi/4: the five pitch bands are all inhabited, each      *)
(* singular band holds pitches other than +-pi/2, and the comparisons of   *)
(* the if-chain are the code's.  Arithmetic on angles is exact (no         *)
(* rounding), and sines and cosines of grid angles are represented exactly *)
(* (TwoCos), so equality of rotation matrices is decided, not              *)
(* approximated.                                                           *)
(***************************************************************************)
EXTENDS Integers, Sequences, FiniteSets, TLC

\* pi, in grid steps (a power of two, so that the cosine basis is independent)
M_PI == 8
\* const double tol = 1e-3, the width of the singular bands: one grid step
tol == 1
\* M_PI/2
HalfPi == M_PI \div 2

\* Components given to the constructor and the setters lie in -MaxAngle..MaxAngle
MaxAngle == 9
\* Whole turns added to a component when periodicity is compared
MaxTurns == 1
\* invert() calls that run one after the other
MaxInverts == 2

Angle == (-MaxAngle)..MaxAngle
Turns == (-MaxTurns)..MaxTurns

VARIABLES
  zyx_,     \* Base zyx_: the object's vector [yaw; pitch; roll]
  op,       \* the member function that ran last
  arg,      \* its arguments
  unique,   \* the copy returned by zyx_.getUnique(), <<>> when there is none
  unique2,  \* the copy returned by unique.getUnique(), <<>> when there is none
  branch,   \* the branch of getUnique's if-chain taken by the last call, 0 for none
  start,    \* the object's vector before the invert() calls that ran last, else <<>>
  inverts   \* the number of invert() calls that ran last, one after the other

vars == <<zyx_, op, arg, unique, unique2, branch, start, inverts>>

None == <<>>

-----------------------------------------------------------------------------
(* Constructors, accessors, mutators *)

\* EulerAnglesZyx() : zyx_(Base::Zero())
EulerAnglesZyx0 == <<0, 0, 0>>

\* EulerAnglesZyx(Scalar yaw, Scalar pitch, Scalar roll) : zyx_(yaw,pitch,roll)
EulerAnglesZyx3(yaw_, pitch_, roll_) == <<yaw_, pitch_, roll_>>

\* explicit EulerAnglesZyx(const Base& other) : zyx_(other)
EulerAnglesZyxBase(other) == other

\* vector(): toImplementation(), the vector in the order of zyx_
vector(o) == o

\* zyx_(i) for the 0-based Eigen index i
At(v, i) == v[i + 1]

yaw(o) == At(o, 0)
pitch(o) == At(o, 1)
roll(o) == At(o, 2)

z(o) == At(o, 0)
y(o) == At(o, 1)
x(o) == At(o, 2)

\* zyx_(i) = v
Put(o, i, v) == [o EXCEPT ![i + 1] = v]

\* setYaw writing the roll's position
setYawAtRoll(o, v) == Put(o, 2, v)

setYaw(o, v) == Put(o, 0, v)
setPitch(o, v) == Put(o, 1, v)
setRoll(o, v) == Put(o, 2, v)

setZ(o, v) == Put(o, 0, v)
setY(o, v) == Put(o, 1, v)
setX(o, v) == Put(o, 2, v)

\* zyx_.setZero()
setIdentity(o) == [i \in DOMAIN o |-> 0]

-----------------------------------------------------------------------------
(* getUnique / setUnique *)

\* kindr::common::floatingPointModulo(x, y) for y > 0: the remainder in [0, y)
floatingPointModulo(a, n) == a % n

\* std::fmod(x, y): the remainder with the sign of x
fmod(a, n) == IF a >= 0 THEN a % n ELSE -((-a) % n)

\* Wrap with the truncating remainder, which is negative for a + M_PI < 0
WrapFmod(a) == fmod(a + M_PI, 2 * M_PI) - M_PI

\* Wrap without the offset by pi: into [0, 2*pi)
WrapNoOffset(a) == floatingPointModulo(a, 2 * M_PI)

\* floatingPointModulo(a + M_PI, 2*M_PI) - M_PI
Wrap(a) == floatingPointModulo(a + M_PI, 2 * M_PI) - M_PI

\* Base zyx(...): all three angles wrapped into [-pi, pi)
PreWrap(o) == <<Wrap(z(o)), Wrap(y(o)), Wrap(x(o))>>

\* The shift with a <= 0 as its test, which sends 0 to +pi
ShiftPiInclusive(a) == IF a <= 0 THEN a + M_PI ELSE a - M_PI

\* if (a < 0) a = a + M_PI; else a = a - M_PI;
ShiftPi(a) == IF a < 0 THEN a + M_PI ELSE a - M_PI

\* The chain with the upper singular band open at pi/2 + tol
BranchStrictUpper(w) ==
  IF y(w) < -HalfPi - tol THEN 1
  ELSE IF -HalfPi - tol <= y(w) /\ y(w) <= -HalfPi + tol THEN 2
  ELSE IF -HalfPi + tol < y(w) /\ y(w) < HalfPi - tol THEN 3
  ELSE IF HalfPi - tol <= y(w) /\ y(w) < HalfPi + tol THEN 4
  ELSE 5

\* The branch of the if / else-if chain that runs for the wrapped vector w
Branch(w) ==
  IF y(w) < -HalfPi - tol THEN 1
  ELSE IF -HalfPi - tol <= y(w) /\ y(w) <= -HalfPi + tol THEN 2
  ELSE IF -HalfPi + tol < y(w) /\ y(w) < HalfPi - tol THEN 3
  ELSE IF HalfPi - tol <= y(w) /\ y(w) <= HalfPi + tol THEN 4
  ELSE 5

\* The body of each branch, applied to the wrapped vector w
BranchBody(b, w) ==
  CASE b = 1 -> <<ShiftPi(z(w)), -(y(w) + M_PI), ShiftPi(x(w))>>
    [] b = 2 -> <<z(w) + x(w), y(w), 0>>
    [] b = 3 -> w
    [] b = 4 -> <<z(w) - x(w), y(w), 0>>
    [] b = 5 -> <<ShiftPi(z(w)), -(y(w) - M_PI), ShiftPi(x(w))>>

\* EulerAnglesZyx getUnique() const
getUnique(o) ==
  LET w == PreWrap(o)
  IN  EulerAnglesZyxBase(BranchBody(Branch(w), w))

\* *this = getUnique()
setUnique(o) == getUnique(o)

-----------------------------------------------------------------------------
(* The rotation an angle triple denotes: Rz(z) * Ry(y) * Rx(x)             *)
(*                                                                         *)
(* A TrigSum is the real number  SUM_k  s[k] * 2cos(k*pi/M_PI),            *)
(* k in 0..HalfPi-1, with integer s[k].  For M_PI a power of two these     *)
(* cosines are linearly independent over the rationals, so two TrigSums    *)
(* are the same real number exactly when they are the same function.       *)
(* Products of sines and cosines of grid angles are brought to this form   *)
(* by  2cos(a) * 2cos(b) = 2cos(a+b) + 2cos(a-b)  and  sin(a) =            *)
(* cos(a - pi/2).  Every matrix entry is kept multiplied by 8.             *)

Basis == 0..(HalfPi - 1)

TsZero == [k \in Basis |-> 0]
TsAdd(s, t) == [k \in Basis |-> s[k] + t[k]]
TsScale(n, s) == [k \in Basis |-> n * s[k]]
TsSub(s, t) == TsAdd(s, TsScale(-1, t))

\* 2cos(a*pi/M_PI): cos is even, cos(pi - t) = -cos(t), cos(pi/2) = 0
TwoCos(a) ==
  LET r == a % (2 * M_PI)
      e == IF r > M_PI THEN 2 * M_PI - r ELSE r
  IN  IF e = HalfPi THEN TsZero
      ELSE IF e < HalfPi THEN [k \in Basis |-> IF k = e THEN 1 ELSE 0]
      ELSE [k \in Basis |-> IF k = M_PI - e THEN -1 ELSE 0]

\* 8 * cos(a)
Cos1(a) == TsScale(4, TwoCos(a))
\* 8 * cos(a) * cos(b)
Cos2(a, b) == TsScale(2, TsAdd(TwoCos(a + b), TwoCos(a - b)))
\* 8 * cos(a) * cos(b) * cos(c)
Cos3(a, b, c) ==
  TsAdd(TsAdd(TwoCos(a + b + c), TwoCos(a + b - c)),
        TsAdd(TwoCos(a - b + c), TwoCos(a - b - c)))

\* the angle whose cosine is sin(a)
Sn(a) == a - HalfPi

\* 8 * Rz(z) * Ry(y) * Rx(x), row by row
toRotationMatrix(o) ==
  LET cz == z(o)  sz == Sn(z(o))
      cy == y(o)  sy == Sn(y(o))
      cx == x(o)  sx == Sn(x(o))
  IN  << Cos2(cz, cy),
         TsSub(Cos3(cz, sy, sx), Cos2(sz, cx)),
         TsAdd(Cos3(cz, sy, cx), Cos2(sz, sx)),
         Cos2(sz, cy),
         TsAdd(Cos3(sz, sy, sx), Cos2(cz, cx)),
         TsSub(Cos3(sz, sy, cx), Cos2(cz, sx)),
         TsScale(-1, Cos1(sy)),
         Cos2(cy, sx),
         Cos2(cy, cx) >>

SameRotation(s, t) == toRotationMatrix(s) = toRotationMatrix(t)

HalfTurn == (-M_PI)..(M_PI - 1)

-----------------------------------------------------------------------------
(* inverted / invert: through the rotation quaternion                      *)
(*                                                                         *)
(* A unit quaternion is represented by the rotation it denotes (q and -q   *)
(* denote the same one).  The converter from a quaternion returns a triple *)
(* that denotes the quaternion's rotation; which of these triples it       *)
(* returns is left open, so inverted(o) is the set of triples it may       *)
(* return.                                                                 *)

\* RotationQuaternion(zyx): the rotation of the triple
RotationQuaternion(o) == toRotationMatrix(o)

\* q.inverted(): the inverse rotation, the transposed matrix
quaternionInverted(m) ==
  <<m[1], m[4], m[7], m[2], m[5], m[8], m[3], m[6], m[9]>>

\* The triples with components in [-pi, pi) that denote the rotation m.
\* The pitch is read from the entry -sin(y); yaw and roll are then
\* narrowed by the entries cos(y)*cos(z), cos(y)*sin(z), cos(y)*sin(x) and
\* cos(y)*cos(x) before the whole matrix is compared.
TriplesOf(m) ==
  LET ps == {p \in HalfTurn : TsScale(-1, Cos1(Sn(p))) = m[7]}
      zs(p) == {a \in HalfTurn : Cos2(a, p) = m[1] /\ Cos2(Sn(a), p) = m[4]}
      xs(p) == {c \in HalfTurn : Cos2(p, Sn(c)) = m[8] /\ Cos2(p, c) = m[9]}
  IN  UNION {{e \in {<<a, p, c>> : a \in zs(p), c \in xs(p)} :
                toRotationMatrix(e) = m} : p \in ps}

\* EulerAnglesZyx(const RotationBase<OtherDerived_>& other) for a quaternion
EulerAnglesZyxOfQuaternion(q) == TriplesOf(q)

\* EulerAnglesZyx(RotationQuaternion<PrimType_>(*this).inverted())
inverted(o) == EulerAnglesZyxOfQuaternion(quaternionInverted(RotationQuaternion(o)))

-----------------------------------------------------------------------------
(* The object's life: construction, then any sequence of member calls *)

Init ==
  /\ \/ /\ zyx_ = EulerAnglesZyx0
        /\ op = "EulerAnglesZyx()"
        /\ arg = <<>>
     \/ \E a \in Angle, b \in Angle, c \in Angle :
          /\ zyx_ = EulerAnglesZyx3(a, b, c)
          /\ op = "EulerAnglesZyx(yaw,pitch,roll)"
          /\ arg = <<a, b, c>>
  /\ unique = None
  /\ unique2 = None
  /\ branch = 0
  /\ start = None
  /\ inverts = 0

\* A mutator ran: the copies returned earlier are of the old value
Mutated(name, v, new) ==
  /\ zyx_' = new
  /\ op' = name
  /\ arg' = v
  /\ unique' = None
  /\ unique2' = None
  /\ branch' = 0
  /\ start' = None
  /\ inverts' = 0

SetYaw == \E v \in Angle : Mutated("setYaw", <<v>>, setYaw(zyx_, v))
SetPitch == \E v \in Angle : Mutated("setPitch", <<v>>, setPitch(zyx_, v))
SetRoll == \E v \in Angle : Mutated("setRoll", <<v>>, setRoll(zyx_, v))
SetZ == \E v \in Angle : Mutated("setZ", <<v>>, setZ(zyx_, v))
SetY == \E v \in Angle : Mutated("setY", <<v>>, setY(zyx_, v))
SetX == \E v \in Angle : Mutated("setX", <<v>>, setX(zyx_, v))
SetIdentity == Mutated("setIdentity", <<>>, setIdentity(zyx_))

\* u = zyx_.getUnique()
GetUnique ==
  /\ unique' = getUnique(zyx_)
  /\ branch' = Branch(PreWrap(zyx_))
  /\ unique2' = None
  /\ op' = "getUnique"
  /\ arg' = <<>>
  /\ start' = None
  /\ inverts' = 0
  /\ UNCHANGED zyx_

\* u.getUnique(), on the copy returned by the last getUnique
GetUniqueAgain ==
  /\ unique # None
  /\ op = "getUnique"
  /\ unique2' = getUnique(unique)
  /\ op' = "getUnique.getUnique"
  /\ arg' = <<>>
  /\ UNCHANGED <<zyx_, unique, branch, start, inverts>>

\* zyx_.setUnique()
SetUnique ==
  /\ zyx_' = setUnique(zyx_)
  /\ branch' = Branch(PreWrap(zyx_))
  /\ op' = "setUnique"
  /\ arg' = <<>>
  /\ unique' = None
  /\ unique2' = None
  /\ start' = None
  /\ inverts' = 0

\* zyx_.invert(): *this = this->inverted()
Invert ==
  /\ inverts < MaxInverts
  /\ \E e \in inverted(zyx_) : zyx_' = e
  /\ start' = IF inverts = 0 THEN zyx_ ELSE start
  /\ inverts' = inverts + 1
  /\ op' = "invert"
  /\ arg' = <<>>
  /\ unique' = None
  /\ unique2' = None
  /\ branch' = 0

Next ==
  \/ SetYaw
  \/ SetPitch
  \/ SetRoll
  \/ SetZ
  \/ SetY
  \/ SetX
  \/ SetIdentity
  \/ GetUnique
  \/ GetUniqueAgain
  \/ SetUnique

Spec == Init /\ [][Next]_vars

\* Construction, then invert() calls only
NextInversion == Invert

SpecInversion == Init /\ [][NextInversion]_vars

-----------------------------------------------------------------------------
(* Properties of getUnique and setUnique *)

\* [-pi, pi) x [-pi/2, pi/2) x [-pi, pi)
InCanonicalBox(u) ==
  /\ -M_PI <= yaw(u) /\ yaw(u) < M_PI
  /\ -HalfPi <= pitch(u) /\ pitch(u) < HalfPi
  /\ -M_PI <= roll(u) /\ roll(u) < M_PI

\* C1: the triple returned by getUnique, and the value setUnique leaves in
\* the object, has yaw in [-pi, pi), pitch in [-pi/2, pi/2) and roll in
\* [-pi, pi), also when the wrapped pitch is in a singular band.
C1_CanonicalRange ==
  /\ op = "getUnique" => InCanonicalBox(unique)
  /\ op = "setUnique" => InCanonicalBox(zyx_)

\* C2: getUnique is idempotent: getUnique of the triple getUnique returned
\* is that triple, component by component.
C2_Idempotent ==
  op = "getUnique.getUnique" => unique2 = unique

\* C3: getUnique preserves the rotation: the triple it returns has the
\* rotation matrix Rz(z)*Ry(y)*Rx(x) of the triple it was called on.
C3_PreservesRotation ==
  op = "getUnique" => SameRotation(unique, zyx_)

\* Triples that may denote the rotation of t: yaw and roll moved together
\* or against each other, with and without the two-fold symmetry
\* (z, y, x) -> (z + pi, pi - y, x + pi)
Relatives(t) ==
  LET gauge == {<<z(t) + d, y(t), x(t) + d>> : d \in HalfTurn}
                 \cup {<<z(t) + d, y(t), x(t) - d>> : d \in HalfTurn}
  IN  gauge \cup {<<z(g) + M_PI, M_PI - y(g), x(g) + M_PI>> : g \in gauge}

\* C4: the canonical representative is unique per rotation: every triple
\* that denotes the same rotation as the one getUnique was called on is
\* mapped by getUnique to the same triple.
C4_UniquePerRotation ==
  op = "getUnique" =>
    \A t \in Relatives(zyx_) : SameRotation(t, zyx_) => getUnique(t) = unique

\* C5: getUnique is 2*pi-periodic in every component: adding whole turns to
\* the components of the triple it was called on does not change its result.
C5_Periodic ==
  op = "getUnique" =>
    \A k \in Turns, m \in Turns, n \in Turns :
      getUnique(<<z(zyx_) + 2 * M_PI * k,
                  y(zyx_) + 2 * M_PI * m,
                  x(zyx_) + 2 * M_PI * n>>) = unique

\* C5 witness: getUnique ran on a triple with yaw above pi and roll below
\* -pi and returned their wrapped values.
C5_Witness ==
  /\ op = "getUnique"
  /\ yaw(zyx_) > M_PI
  /\ roll(zyx_) < -M_PI
  /\ branch = 3
  /\ unique = <<yaw(zyx_) - 2 * M_PI, pitch(zyx_), roll(zyx_) + 2 * M_PI>>

\* The five pitch bands of the canonicalizer, each stated on its own
Band(b, p) ==
  CASE b = 1 -> p < -HalfPi - tol
    [] b = 2 -> -HalfPi - tol <= p /\ p <= -HalfPi + tol
    [] b = 3 -> -HalfPi + tol < p /\ p < HalfPi - tol
    [] b = 4 -> HalfPi - tol <= p /\ p <= HalfPi + tol
    [] b = 5 -> HalfPi + tol < p

InMiddleBand(t) ==
  /\ -M_PI <= yaw(t) /\ yaw(t) < M_PI
  /\ -M_PI <= roll(t) /\ roll(t) < M_PI
  /\ -HalfPi + tol < pitch(t) /\ pitch(t) < HalfPi - tol

\* C10: middle-band fixed point: getUnique returns a triple with yaw and
\* roll in [-pi, pi) and pitch strictly between -pi/2 + tol and pi/2 - tol
\* unchanged, and no call of getUnique modifies the object it is called on.
C10_MiddleBandFixed ==
  [][/\ op' = "getUnique" =>
          /\ zyx_' = zyx_
          /\ InMiddleBand(zyx_) => unique' = zyx_
     /\ op' = "getUnique.getUnique" =>
          /\ zyx_' = zyx_
          /\ unique' = unique
          /\ InMiddleBand(unique) => unique2' = unique]_vars

\* C10 witness: getUnique ran on (-pi, pi/2 - tol - 1, pi - 1), at the
\* edges of the middle band, and returned it.
C10_Witness ==
  /\ op = "getUnique"
  /\ zyx_ = <<-M_PI, HalfPi - tol - 1, M_PI - 1>>
  /\ unique = zyx_
  /\ branch = 3

\* The pre-wrapped pitch is below -pi/2 - tol or above pi/2 + tol
OutOfBand(w) == y(w) < -HalfPi - tol \/ y(w) > HalfPi + tol

\* C11: out-of-band branches land inside the non-singular band: whenever
\* the pre-wrapped pitch is below -pi/2 - tol or above pi/2 + tol, the
\* result of getUnique (and the object after setUnique) has pitch strictly
\* between -pi/2 + tol and pi/2 - tol and yaw and roll in [-pi, pi), the
\* shift by pi maps [-pi, pi) into [-pi, pi), and a second getUnique takes
\* the no-change branch and returns the first result.
C11_OutOfBandLandsInMiddle ==
  /\ op \in {"getUnique", "getUnique.getUnique"} /\ OutOfBand(PreWrap(zyx_)) =>
        /\ branch \in {1, 5}
        /\ InMiddleBand(unique)
        /\ yaw(unique) = ShiftPi(z(PreWrap(zyx_)))
        /\ roll(unique) = ShiftPi(x(PreWrap(zyx_)))
        /\ Branch(PreWrap(unique)) = 3
        /\ op = "getUnique.getUnique" => unique2 = unique
  /\ op = "setUnique" /\ branch \in {1, 5} =>
        /\ InMiddleBand(zyx_)
        /\ Branch(PreWrap(zyx_)) = 3
  /\ \A a \in (-M_PI)..(M_PI - 1) :
        -M_PI <= ShiftPi(a) /\ ShiftPi(a) < M_PI

\* C11 witness: getUnique ran twice on a triple with wrapped yaw 0, a
\* wrapped pitch just above pi/2 + tol and a negative wrapped roll: the
\* last branch ran, the yaw went to -pi, the pitch to just below pi/2 - tol,
\* and the second call returned the first result.
C11_Witness ==
  /\ op = "getUnique.getUnique"
  /\ z(PreWrap(zyx_)) = 0
  /\ y(PreWrap(zyx_)) = HalfPi + tol + 1
  /\ x(PreWrap(zyx_)) < 0
  /\ branch = 5
  /\ unique = <<-M_PI, HalfPi - tol - 1, x(PreWrap(zyx_)) + M_PI>>
  /\ unique2 = unique

-----------------------------------------------------------------------------
(* Properties of the accessors and mutators *)

\* yaw() = z() = vector()[0], pitch() = y() = vector()[1],
\* roll() = x() = vector()[2]
Layout(o) ==
  /\ yaw(o) = z(o) /\ z(o) = vector(o)[1]
  /\ pitch(o) = y(o) /\ y(o) = vector(o)[2]
  /\ roll(o) = x(o) /\ x(o) = vector(o)[3]

\* C8: each of setYaw/setZ, setPitch/setY, setRoll/setX overwrites its own
\* component (position 0, 1, 2) with its argument and leaves the other two
\* unchanged; the paired accessors agree with each other and with the
\* vector; the default constructor and setIdentity leave (0, 0, 0).
C8_Components ==
  /\ Layout(zyx_)
  /\ op = "EulerAnglesZyx()" => zyx_ = <<0, 0, 0>>
  /\ op = "EulerAnglesZyx(yaw,pitch,roll)" =>
       yaw(zyx_) = arg[1] /\ pitch(zyx_) = arg[2] /\ roll(zyx_) = arg[3]
  /\ [][/\ Layout(zyx_')
        /\ op' \in {"setYaw", "setZ"} =>
             zyx_' = <<arg'[1], vector(zyx_)[2], vector(zyx_)[3]>>
        /\ op' \in {"setPitch", "setY"} =>
             zyx_' = <<vector(zyx_)[1], arg'[1], vector(zyx_)[3]>>
        /\ op' \in {"setRoll", "setX"} =>
             zyx_' = <<vector(zyx_)[1], vector(zyx_)[2], arg'[1]>>
        /\ op' = "setIdentity" => zyx_' = <<0, 0, 0>>]_vars

\* C8 witness: setPitch(-2) ran on an object with yaw 3 and roll 5 and left
\* (3, -2, 5).
C8_Witness ==
  /\ op = "setPitch"
  /\ arg = <<-2>>
  /\ zyx_ = <<3, -2, 5>>

-----------------------------------------------------------------------------
(* Properties of inverted and invert *)

\* C6: inversion is an involution modulo canonicalization: after two
\* invert() calls the object has the canonical form getUnique gives the
\* triple it held before them.
C6_InversionInvolution ==
  (op = "invert" /\ inverts = 2) => getUnique(zyx_) = getUnique(start)

\* Outside the singular bands the canonical forms agree, whichever triple
\* the converter from the quaternion returns.
InversionInvolutionOutsideBands ==
  (op = "invert" /\ inverts = 2 /\ Branch(PreWrap(start)) \in {1, 3, 5}) =>
    getUnique(zyx_) = getUnique(start)

====
